---- MODULE Spec2Model ----
(***************************************************************************)
(* Model of the server-side trading engine (services/tradingEngine.js):    *)
(* the TradingEngine object, its timers and the asynchronous continuations *)
(* of start() and executeTick().                                           *)
(*                                                                         *)
(* Numbers: prices are positive integers; every other JavaScript number    *)
(* (moving averages, balances, amounts) is an exact rational [n, d].       *)
(* IEEE-754 rounding is not modelled.  `undefined' for a number is the     *)
(* rational with denominator 0.  `null' for an object is the empty tuple,  *)
(* an object v that may be null is <<v>>.                                  *)
(*                                                                         *)
(* Atomicity: JavaScript runs a handler to its next real I/O await without *)
(* interruption; an await on an already settled promise resumes in a       *)
(* microtask, before any timer or message.  So one action is one run from  *)
(* an event (timer, message, I/O completion) to the next I/O await.        *)
(***************************************************************************)
EXTENDS Integers, Sequences, FiniteSets, TLC

\* ------------------------------------------------------------------------
\* Bounds of the model
\* ------------------------------------------------------------------------
\* number of free price points after the warm-up prefix of a replay series
TailLen == 3
\* number of start() calls that get past the isRunning check
MaxSessions == 2

\* ------------------------------------------------------------------------
\* Exact rational arithmetic
\* ------------------------------------------------------------------------
RECURSIVE GCD(_, _)
GCD(a, b) == IF b = 0 THEN a ELSE GCD(b, a % b)

Abs(x) == IF x < 0 THEN -x ELSE x

Rat(n, d) ==
    LET g == GCD(Abs(n), Abs(d))
        s == IF d < 0 THEN -1 ELSE 1
    IN  IF n = 0 THEN [n |-> 0, d |-> 1] ELSE [n |-> s * (n \div g), d |-> s * (d \div g)]

Undefined == [n |-> 0, d |-> 0]
IsDefined(x) == x.d # 0
FromInt(i) == [n |-> i, d |-> 1]
RAdd(x, y) == Rat(x.n * y.d + y.n * x.d, x.d * y.d)
RSub(x, y) == Rat(x.n * y.d - y.n * x.d, x.d * y.d)
RMul(x, y) == Rat(x.n * y.n, x.d * y.d)
RDiv(x, y) == Rat(x.n * y.d, x.d * y.n)
RLess(x, y) == x.n * y.d < y.n * x.d
RLeq(x, y) == x.n * y.d <= y.n * x.d
\* JavaScript truthiness of a number-or-undefined: undefined and 0 are falsy
Truthy(x) == IsDefined(x) /\ x.n # 0
\* Math.round: nearest integer, halves rounded up
MathRound(x) == (2 * x.n + x.d) \div (2 * x.d)

RECURSIVE SumSeq(_)
SumSeq(s) == IF s = <<>> THEN 0 ELSE s[1] + SumSeq(Tail(s))

\* data.slice(-period): the last `period' elements, all of them when the
\* array is shorter (and when period is 0, slice(-0) being slice(0)); a
\* negative period makes the argument positive, an index to start from
SliceLast(data, period) ==
    IF period = 0 \/ period >= Len(data) THEN data
    ELSE IF period < 0 THEN SubSeq(data, 1 - period, Len(data))
    ELSE SubSeq(data, Len(data) - period + 1, Len(data))

\* 0 / 0, the quotient of an empty sum by a length of 0: a number that is
\* not undefined, is falsy, and equals nothing
NaN == [n |-> 1, d |-> 0]

\* sum / slice.length
MeanOf(slice) == IF slice = <<>> THEN NaN ELSE Rat(SumSeq(slice), Len(slice))

\* variant: an average of whatever points there are
calculateSMAWithoutMinimum(data, period, minPoints) ==
    LET slice == SliceLast(data, period)
    IN  MeanOf(slice)

calculateSMA(data, period, minPoints) ==
    IF Len(data) < minPoints THEN Undefined
    ELSE LET slice == SliceLast(data, period)
         IN  MeanOf(slice)

fastPeriodOf(settings) ==
    MathRound(RAdd(FromInt(5), Rat((100 - settings.dipsSensitivity) * 45, 100)))
slowPeriodOf(settings) ==
    MathRound(RAdd(FromInt(15), Rat((100 - settings.dipsSensitivity) * 85, 100)))
riskPeriod == 50
riskMinPoints == 10
chartCapacity == 500

\* riskLine = marketAverage ? marketAverage * (1 + (riskLevel - 50) / 200) : undefined
riskLineOf(marketAverage, settings) ==
    IF Truthy(marketAverage)
    THEN RMul(marketAverage, RAdd(FromInt(1), Rat(settings.riskLevel - 50, 200)))
    ELSE Undefined

\* ------------------------------------------------------------------------
\* Inputs: settings, replay series, live prices
\* ------------------------------------------------------------------------
Null == <<>>

\* telegramSettings: the toggles the engine reads, the bot token and the
\* chat id string, a string being the sequence of its characters
TelegramTo(on, chatId) ==
    [enableBuyNotifications |-> on, enableSellNotifications |-> on,
     enablePeriodicMessages |-> on, isTested |-> on,
     botToken |-> IF on THEN <<"t">> ELSE <<>>,
     chatId |-> IF on THEN chatId ELSE <<>>]

Telegram(on) == TelegramTo(on, <<"7">>)

BaseSettings(sl, st, mx, tg) ==
    [dipsSensitivity |-> 100, riskLevel |-> 100,
     stopLossPercentage |-> sl, sellTriggerPercentage |-> st,
     initialBalance |-> 1000, tradeAmountPercentage |-> 50,
     maxConcurrentPositions |-> mx, telegramSettings |-> Telegram(tg)]

SettingsChoices ==
    { BaseSettings(50, 0, 2, FALSE), BaseSettings(5, 5, 1, FALSE),
      BaseSettings(5, 0, 2, TRUE) }

\* the partial settings objects sent with updateSettings
PartialChoices ==
    { [maxConcurrentPositions |-> 1], [maxConcurrentPositions |-> 2] }

\* replay series: a flat prefix long enough for both moving averages to
\* exist, then TailLen points that rise by one, stay above the prefix and may
\* fall back at the end; and two series shorter than the slow period, one
\* of them one point shorter and rising at its end
WarmLen == 1 + slowPeriodOf(CHOOSE s \in SettingsChoices : TRUE)
Flat(k) == [i \in 1..k |-> 10]
TailPrices == {7, 11, 12}
Tails ==
    { t \in [1..TailLen -> TailPrices] :
         t[1] = 11 /\ \A i \in 1..(TailLen - 1) : t[i] > 10 }

MakeSeries(prices) == [i \in 1..Len(prices) |-> [time |-> i, price |-> prices[i]]]

SeriesChoices ==
    { MakeSeries(Flat(WarmLen) \o t) : t \in Tails }
    \cup { MakeSeries(Flat(1)), MakeSeries(Flat(WarmLen - 4) \o <<11, 11>>) }

\* what coinbaseService.getPrice can deliver: a price, or a rejection
\* (0 stands for the rejected promise)
LivePrices == {10}
FetchResults == LivePrices \cup {0}
Rejected(result) == result = 0

\* ------------------------------------------------------------------------
\* State
\* ------------------------------------------------------------------------
VARIABLES
    state,                     \* TradingEngine.state
    tradingInterval,           \* TRUE iff this.tradingInterval holds a handle
    periodicTelegramInterval,  \* TRUE iff this.periodicTelegramInterval holds a handle
    orphanTickTimers,          \* running tick intervals whose handle was overwritten
    orphanPeriodicTimers,      \* running periodic intervals whose handle was overwritten
    pending,                   \* continuations suspended on I/O, in order of suspension
    updates,                   \* parity of the number of updateCallback invocations
    clients,                   \* wss.clients, in order of arrival
    response,                  \* the HTTP response sent last, if any
    simulation,                \* the call of runHeadlessSimulation under way, if any
    evaluation,                \* a call of calculateSMA and what it returned, if any
    backend,                   \* the BackendService of the browser and its sockets
    sessions                   \* start() calls so far that found the engine idle

vars == <<state, tradingInterval, periodicTelegramInterval, orphanTickTimers,
          orphanPeriodicTimers, pending, updates, clients, response, simulation,
          evaluation, backend, sessions>>

\* the engine and its environment as one value, so that a handler is an
\* operator from worlds to worlds
World ==
    [state |-> state, tradingInterval |-> tradingInterval,
     periodicTelegramInterval |-> periodicTelegramInterval,
     orphanTickTimers |-> orphanTickTimers,
     orphanPeriodicTimers |-> orphanPeriodicTimers,
     pending |-> pending, updates |-> updates,
     clients |-> clients, response |-> response, simulation |-> simulation,
     evaluation |-> evaluation, backend |-> backend]

Becomes(w) ==
    \E next \in {w} :
        /\ state' = next.state
        /\ tradingInterval' = next.tradingInterval
        /\ periodicTelegramInterval' = next.periodicTelegramInterval
        /\ orphanTickTimers' = next.orphanTickTimers
        /\ orphanPeriodicTimers' = next.orphanPeriodicTimers
        /\ pending' = next.pending
        /\ updates' = next.updates
        /\ clients' = next.clients
        /\ response' = next.response
        /\ simulation' = next.simulation
        /\ evaluation' = next.evaluation
        /\ backend' = next.backend

\* backendService.ts lines 23-28: the fields of a new BackendService. ws is
\* null or holds the readyState (0 CONNECTING, 1 OPEN, 2 CLOSING, 3 CLOSED)
\* of the WebSocket the field refers to; released counts, by readyState, the
\* WebSockets the field no longer refers to and that have not closed yet:
\* their handlers still run. timers counts the pending timeouts of
\* attemptReconnect; constructed changes with every WebSocket constructed;
\* disconnected records that disconnect() was the last call from outside
NewBackendService ==
    [ws |-> Null, reconnectAttempts |-> 0, isConnecting |-> FALSE, timers |-> 0,
     released |-> <<0, 0, 0>>, constructed |-> 0, disconnected |-> FALSE]

InitialState ==
    [isRunning |-> FALSE, settings |-> Null, account |-> Null, trades |-> <<>>,
     openPositions |-> <<>>, currentPrice |-> 0, chartData |-> <<>>,
     backtestData |-> Null, backtestIndex |-> 0, tradeIdCounter |-> 0,
     startPrice |-> 0, lowestAccountValue |-> FromInt(0),
     highestAccountValue |-> FromInt(0), isLive |-> FALSE,
     isProcessingTick |-> FALSE]

\* the state after construction, with a call of calculateSMA about to be made
InitWith(call) ==
    /\ state = InitialState
    /\ tradingInterval = FALSE
    /\ periodicTelegramInterval = FALSE
    /\ orphanTickTimers = 0
    /\ orphanPeriodicTimers = 0
    /\ pending = <<>>
    /\ updates = 0
    /\ clients = <<>>
    /\ response = Null
    /\ simulation = Null
    /\ evaluation = call
    /\ backend = NewBackendService
    /\ sessions = 0

Init == InitWith(Null)

\* a suspended continuation: where it resumes and the locals it still reads
\* (chatIds and attempted are the locals of _sendTelegramNotification)
Continuation(pc, settings, backtestData, isLive, newPrice, newTime, mas) ==
    [pc |-> pc, settings |-> settings, backtestData |-> backtestData,
     isLive |-> isLive, newPrice |-> newPrice, newTime |-> newTime, mas |-> mas,
     chatIds |-> <<>>, attempted |-> <<>>]

NoMAs ==
    [fastMA |-> Undefined, slowMA |-> Undefined, prevFastMA |-> Undefined,
     prevSlowMA |-> Undefined, riskLine |-> Undefined]

Suspend(w, c) == [w EXCEPT !.pending = Append(@, c)]
RemoveAt(s, i) == SubSeq(s, 1, i - 1) \o SubSeq(s, i + 1, Len(s))

\* ------------------------------------------------------------------------
\* _notifyUpdate, stop, updateSettings
\* ------------------------------------------------------------------------
\* account.quote + account.base * price
accountValueAt(account, price) == RAdd(account.quote, RMul(account.base, FromInt(price)))

\* server.js lines 34-50: the `state' message
Snapshot(engineState) ==
    [isRunning |-> engineState.isRunning,
     account |-> engineState.account,
     currentPrice |-> engineState.currentPrice,
     trades |-> engineState.trades,
     chartData |-> engineState.chartData,
     profit |->
         IF engineState.account = Null THEN FromInt(0)
         ELSE RSub(accountValueAt(engineState.account[1], engineState.currentPrice),
                   FromInt(engineState.settings[1].initialBalance)),
     backtestProgress |->
         IF engineState.backtestData # Null /\ Len(engineState.backtestData[1]) > 0
         THEN Rat(engineState.backtestIndex * 100, Len(engineState.backtestData[1]))
         ELSE FromInt(0)]

\* variant: a broadcast that reaches nobody
broadcastToNobody(w) == w

\* server.js lines 34-57: the message goes to the sockets that are OPEN (1)
broadcastUpdate(w) ==
    [w EXCEPT !.clients =
        [i \in 1..Len(@) |->
            IF @[i].readyState = 1
            THEN [@[i] EXCEPT !.inbox = <<Snapshot(w.state)>>]
            ELSE @[i]]]

\* the server installs broadcastUpdate as the callback (server.js line 60)
notifyUpdate(w) == broadcastUpdate([w EXCEPT !.updates = 1 - @])

\* variant: stop without the isRunning check of line 382
stopUnguarded(w) ==
    notifyUpdate([w EXCEPT !.state.isRunning = FALSE,
                           !.tradingInterval = FALSE,
                           !.periodicTelegramInterval = FALSE])

stop(w) ==
    IF ~w.state.isRunning THEN w
    ELSE notifyUpdate([w EXCEPT !.state.isRunning = FALSE,
                                !.tradingInterval = FALSE,
                                !.periodicTelegramInterval = FALSE])

\* variant: the new object replaces the old one
MergeReplacing(settings, newSettings) == newSettings

\* { ...settings, ...newSettings }
Merge(settings, newSettings) ==
    [f \in DOMAIN settings \cup DOMAIN newSettings |->
        IF f \in DOMAIN newSettings THEN newSettings[f] ELSE settings[f]]

updateSettings(w, newSettings) ==
    IF w.state.isRunning
    THEN [w EXCEPT !.state.settings = <<Merge(w.state.settings[1], newSettings)>>]
    ELSE w

\* ------------------------------------------------------------------------
\* executeTick, from the price sample on (lines 95-145)
\* ------------------------------------------------------------------------
Prices(chartData) == [i \in 1..Len(chartData) |-> chartData[i].price]

Account(w) == w.state.account[1]
Settings(w) == w.state.settings[1]

\* String.prototype.split with a one-character separator
RECURSIVE split(_, _)
split(s, separator) ==
    IF \A i \in 1..Len(s) : s[i] # separator THEN <<s>>
    ELSE LET k == CHOOSE i \in 1..Len(s) :
                      s[i] = separator /\ \A j \in 1..(i - 1) : s[j] # separator
         IN  <<SubSeq(s, 1, k - 1)>> \o split(SubSeq(s, k + 1, Len(s)), separator)

\* String.prototype.trim, the blank being the only white space in use
RECURSIVE trim(_)
trim(s) ==
    IF s = <<>> THEN s
    ELSE IF Head(s) = " " THEN trim(Tail(s))
    ELSE IF s[Len(s)] = " " THEN trim(SubSeq(s, 1, Len(s) - 1))
    ELSE s

\* .filter(id => id): the empty string is falsy
RECURSIVE filterNonEmpty(_)
filterNonEmpty(ids) ==
    IF ids = <<>> THEN <<>>
    ELSE IF Head(ids) = <<>> THEN filterNonEmpty(Tail(ids))
    ELSE <<Head(ids)>> \o filterNonEmpty(Tail(ids))

\* lines 275-278: the ids a notification goes to, none without credentials
chatIdsOf(telegramSettings) ==
    IF telegramSettings.botToken = <<>> \/ telegramSettings.chatId = <<>> THEN <<>>
    ELSE LET parts == split(telegramSettings.chatId, ",")
         IN  filterNonEmpty([i \in 1..Len(parts) |-> trim(parts[i])])

\* settings.telegramSettings?.enableXNotifications && ?.isTested, and
\* _sendTelegramNotification reaching a fetch
SellDispatch(settings) ==
    /\ settings.telegramSettings.enableSellNotifications
    /\ settings.telegramSettings.isTested
    /\ chatIdsOf(settings.telegramSettings) # <<>>
BuyDispatch(settings) ==
    /\ settings.telegramSettings.enableBuyNotifications
    /\ settings.telegramSettings.isTested
    /\ chatIdsOf(settings.telegramSettings) # <<>>

\* lines 280-292: the loop has reached the fetch for its first id
awaitFirstFetch(c, pc, settings) ==
    LET ids == chatIdsOf(settings.telegramSettings)
    IN  [c EXCEPT !.pc = pc, !.chatIds = ids, !.attempted = <<ids[1]>>]

\* the loop reaches the fetch for its next id
awaitNextFetch(c) == [c EXCEPT !.attempted = Append(@, c.chatIds[Len(@) + 1])]

\* variant: a failed delivery ends the loop
loopContinuesUnlessFailed(c, ok) == ok /\ Len(c.attempted) < Len(c.chatIds)

\* lines 280-296: the try/catch is inside the loop, so the loop goes on to
\* the next id whether the fetch was fulfilled (ok) or rejected
loopContinues(c, ok) == Len(c.attempted) < Len(c.chatIds)

\* lines 131-145: watermarks, broadcast, release of the in-flight flag
finishTick(w, c) ==
    LET accountValue == accountValueAt(Account(w), c.newPrice)
        lo == IF RLess(accountValue, w.state.lowestAccountValue)
              THEN accountValue ELSE w.state.lowestAccountValue
        hi == IF RLess(w.state.highestAccountValue, accountValue)
              THEN accountValue ELSE w.state.highestAccountValue
        w1 == notifyUpdate([w EXCEPT !.state.lowestAccountValue = lo,
                                     !.state.highestAccountValue = hi])
    IN  IF c.backtestData = Null
        THEN [w1 EXCEPT !.state.isProcessingTick = FALSE]
        ELSE w1

\* lines 228-233: the conditions under which _executeBuyLogic opens a position
tradeAmountQuoteOf(account, settings) ==
    RMul(account.quote, Rat(settings.tradeAmountPercentage, 100))

\* variant: no limit on the open positions
HasFreeSlotUncapped(openPositions, settings) == TRUE

\* line 229: a slot is free
HasFreeSlot(openPositions, settings) ==
    Len(openPositions) < settings.maxConcurrentPositions

BuyAllowed(w, c) ==
    LET settings == Settings(w)
        tradeAmountQuote == tradeAmountQuoteOf(Account(w), settings)
    IN  /\ RLess(c.mas.slowMA, c.mas.fastMA)
        /\ RLeq(c.mas.prevFastMA, c.mas.prevSlowMA)
        /\ HasFreeSlot(w.state.openPositions, settings)
        /\ Truthy(c.mas.riskLine)
        /\ RLess(FromInt(c.newPrice), c.mas.riskLine)
        /\ RLeq(tradeAmountQuote, Account(w).quote)
        /\ RLess(FromInt(1), tradeAmountQuote)

\* lines 234-250: the bookkeeping of a buy
applyBuy(w, c) ==
    LET tradeAmountQuote == tradeAmountQuoteOf(Account(w), Settings(w))
        buyAmount == RDiv(tradeAmountQuote, FromInt(c.newPrice))
        buyTrade == [id |-> w.state.tradeIdCounter, type |-> "BUY",
                     price |-> c.newPrice, time |-> c.newTime,
                     amount |-> buyAmount, reason |-> "MACD Crossover"]
    IN  [w EXCEPT !.state.account =
                      <<[base |-> RAdd(Account(w).base, buyAmount),
                         quote |-> RSub(Account(w).quote, tradeAmountQuote)]>>,
                  !.state.tradeIdCounter = @ + 1,
                  !.state.openPositions = Append(@, buyTrade),
                  !.state.trades = Append(@, buyTrade)]

\* _executeBuyLogic and the rest of executeTick
executeBuyLogic(w, c) ==
    IF BuyAllowed(w, c)
    THEN LET w1 == applyBuy(w, c)
         IN  IF BuyDispatch(Settings(w))
             THEN Suspend(w1, awaitFirstFetch(c, "buyNotify", Settings(w)))
             ELSE finishTick(w1, c)
    ELSE finishTick(w, c)

\* lines 157-182: index of the position to sell and the reason, index 0 for none
StopLossHit(pos, settings, newPrice) ==
    newPrice * 100 <= pos.price * (100 - settings.stopLossPercentage)
SellTriggerHit(pos, settings, newPrice) ==
    /\ settings.sellTriggerPercentage > 0
    /\ newPrice * 100 >= pos.price * (100 + settings.sellTriggerPercentage)

\* variant: the crossover sells the newest position
crossoverIndexNewest(openPositions) == Len(openPositions)

\* lines 179-181: the crossover sells the oldest position
crossoverIndex(openPositions) == 1

\* variant: stop-loss is looked for in the whole list before any sell trigger
positionToSellStopLossFirst(openPositions, settings, c) ==
    LET stops == { i \in 1..Len(openPositions) :
                      StopLossHit(openPositions[i], settings, c.newPrice) }
        triggers == { i \in 1..Len(openPositions) :
                         SellTriggerHit(openPositions[i], settings, c.newPrice) }
    IN  IF stops # {}
        THEN [index |-> CHOOSE i \in stops : \A j \in stops : i <= j,
              reason |-> "Stop Loss"]
        ELSE IF triggers # {}
        THEN [index |-> CHOOSE i \in triggers : \A j \in triggers : i <= j,
              reason |-> "Sell Trigger"]
        ELSE IF /\ RLess(c.mas.fastMA, c.mas.slowMA)
                /\ RLeq(c.mas.prevSlowMA, c.mas.prevFastMA)
                /\ Len(openPositions) > 0
             THEN [index |-> crossoverIndex(openPositions), reason |-> "MACD Crossover"]
             ELSE [index |-> 0, reason |-> ""]

positionToSell(openPositions, settings, c) ==
    LET hits == { i \in 1..Len(openPositions) :
                     \/ StopLossHit(openPositions[i], settings, c.newPrice)
                     \/ SellTriggerHit(openPositions[i], settings, c.newPrice) }
        first == CHOOSE i \in hits : \A j \in hits : i <= j
    IN  IF hits # {}
        THEN [index |-> first,
              reason |-> IF StopLossHit(openPositions[first], settings, c.newPrice)
                         THEN "Stop Loss" ELSE "Sell Trigger"]
        ELSE IF /\ RLess(c.mas.fastMA, c.mas.slowMA)
                /\ RLeq(c.mas.prevSlowMA, c.mas.prevFastMA)
                /\ Len(openPositions) > 0
             THEN [index |-> crossoverIndex(openPositions), reason |-> "MACD Crossover"]
             ELSE [index |-> 0, reason |-> ""]

\* variant: a sell credited at the entry price
sellProceedsAtEntry(pos, newPrice) == RMul(pos.amount, FromInt(pos.price))

\* line 189: what a sell adds to the quote balance
sellProceeds(pos, newPrice) == RMul(pos.amount, FromInt(newPrice))

\* variant: the sold position stays in the list
spliceNothing(openPositions, positionIndex) == openPositions

\* line 202: openPositions.splice(positionIndex, 1)
splice(openPositions, positionIndex) == RemoveAt(openPositions, positionIndex)

\* lines 185-202: the bookkeeping of a sell
applySell(w, c, sel) ==
    LET sellAmount == w.state.openPositions[sel.index].amount
        sellTrade == [id |-> w.state.tradeIdCounter, type |-> "SELL",
                      price |-> c.newPrice, time |-> c.newTime,
                      amount |-> sellAmount, reason |-> sel.reason]
    IN  [w EXCEPT !.state.account =
                      <<[base |-> RSub(Account(w).base, sellAmount),
                         quote |-> RAdd(Account(w).quote,
                                        sellProceeds(w.state.openPositions[sel.index],
                                                     c.newPrice))]>>,
                  !.state.tradeIdCounter = @ + 1,
                  !.state.trades = Append(@, sellTrade),
                  !.state.openPositions = splice(@, sel.index)]

\* line 129: what executeTick does once _executeSellLogic has returned
afterSellLogic(w, c) == executeBuyLogic(w, c)

\* _executeSellLogic followed by the rest of executeTick
executeSellLogic(w, c) ==
    LET sel == positionToSell(w.state.openPositions, Settings(w), c)
    IN  IF sel.index # 0
        THEN LET w1 == applySell(w, c, sel)
             IN  IF SellDispatch(Settings(w))
                 THEN Suspend(w1, awaitFirstFetch(c, "sellNotify", Settings(w)))
                 ELSE afterSellLogic(w1, c)
        ELSE afterSellLogic(w, c)

\* lines 95-125: indicators, chart point, warm-up gate
indicators(chartData, settings, newPrice) ==
    LET priceHistory == Append(Prices(chartData), newPrice)
        marketAverage == calculateSMA(priceHistory, riskPeriod, riskMinPoints)
        n == Len(chartData)
    IN  [fastMA |-> calculateSMA(priceHistory, fastPeriodOf(settings), fastPeriodOf(settings)),
         slowMA |-> calculateSMA(priceHistory, slowPeriodOf(settings), slowPeriodOf(settings)),
         riskLine |-> riskLineOf(marketAverage, settings),
         prevFastMA |-> IF n > 1 THEN chartData[n - 1].fastMA ELSE Undefined,
         prevSlowMA |-> IF n > 1 THEN chartData[n - 1].slowMA ELSE Undefined]

WarmingUp(mas) ==
    \/ ~Truthy(mas.fastMA)
    \/ ~Truthy(mas.slowMA)
    \/ ~Truthy(mas.prevFastMA)
    \/ ~Truthy(mas.prevSlowMA)

\* c carries the settings and backtestData captured at line 67
processPrice(w, c) ==
    LET mas == indicators(w.state.chartData, c.settings, c.newPrice)
        newPoint == [time |-> c.newTime, price |-> c.newPrice, fastMA |-> mas.fastMA,
                     slowMA |-> mas.slowMA, riskLine |-> mas.riskLine]
        w1 == [w EXCEPT !.state.chartData = SliceLast(Append(@, newPoint), chartCapacity),
                        !.state.currentPrice = c.newPrice]
        \* of the captured locals, the rest of the tick reads the prices, the
        \* moving averages and whether backtestData is null
        c1 == [c EXCEPT !.mas = mas, !.settings = Null,
                        !.backtestData = IF @ = Null THEN Null ELSE << <<>> >>]
    IN  IF WarmingUp(mas)
        THEN notifyUpdate(w1)
        ELSE executeSellLogic(w1, c1)

\* ------------------------------------------------------------------------
\* executeTick, up to the price sample (lines 64-93)
\* ------------------------------------------------------------------------
\* of the settings captured at line 67, lines 95-108 read these two fields
IndicatorSettings(settings) ==
    [dipsSensitivity |-> settings.dipsSensitivity, riskLevel |-> settings.riskLevel]

\* variant: a failed fetch that leaves the in-flight flag set
onFetchFailedKeepFlag(w) == w

\* lines 88-92: the catch of the live price fetch
onFetchFailed(w) == [w EXCEPT !.state.isProcessingTick = FALSE]

\* lines 85-92: the continuation of `await coinbaseService.getPrice(...)';
\* Date.now() decides nothing and is taken to be 0
getPriceSettled(w, c, result) ==
    IF Rejected(result)
    THEN onFetchFailed(w)
    ELSE processPrice(w, [c EXCEPT !.newPrice = result, !.newTime = 0])

\* variant: a tick past the end returns without stopping
onExhaustedKeepRunning(w) == w

\* lines 72-75: the replay series is used up
onExhausted(w) == stop(w)

executeTick(w) ==
    IF ~w.state.isRunning \/ w.state.settings = Null THEN w
    ELSE LET backtestData == w.state.backtestData
             backtestIndex == w.state.backtestIndex
             c == Continuation("getPrice", IndicatorSettings(w.state.settings[1]),
                               backtestData, FALSE, 0, 0, NoMAs)
         IN  IF backtestData # Null /\ Len(backtestData[1]) > 0
             THEN IF backtestIndex >= Len(backtestData[1])
                  THEN onExhausted(w)
                  ELSE LET point == backtestData[1][backtestIndex + 1]
                       IN  processPrice(
                               [w EXCEPT !.state.backtestIndex = backtestIndex + 1],
                               [c EXCEPT !.newPrice = point.price, !.newTime = point.time])
             ELSE IF w.state.isProcessingTick THEN w
                  ELSE Suspend([w EXCEPT !.state.isProcessingTick = TRUE], c)

\* a fetch of the sell notification settles; after the last one, lines
\* 212-216 and the return to executeTick: the order is placed without being
\* awaited, then line 129 runs
sellNotifySettled(w, c, ok) ==
    IF loopContinues(c, ok) THEN Suspend(w, awaitNextFetch(c))
    ELSE afterSellLogic(w, c)

\* a fetch of the buy notification settles; after the last one, the return
\* from _executeBuyLogic to line 131
buyNotifySettled(w, c, ok) ==
    IF loopContinues(c, ok) THEN Suspend(w, awaitNextFetch(c))
    ELSE finishTick(w, c)

\* ------------------------------------------------------------------------
\* start (lines 316-376)
\* ------------------------------------------------------------------------
PeriodicEnabled(settings) ==
    /\ settings.telegramSettings.enablePeriodicMessages
    /\ settings.telegramSettings.isTested

\* lines 346-375: a handle that is overwritten without clearInterval keeps
\* its timer running.  The callback of the periodic interval formats a
\* message from the state and sends it; it assigns nothing, so of that timer
\* only the handle is state.
activate(w, c) ==
    LET w1 == [w EXCEPT !.state.isRunning = TRUE,
                        !.state.isLive = c.isLive,
                        !.orphanTickTimers = IF w.tradingInterval THEN @ + 1 ELSE @,
                        !.tradingInterval = TRUE]
        w2 == IF PeriodicEnabled(c.settings)
              THEN [w1 EXCEPT !.orphanPeriodicTimers =
                                  IF w.periodicTelegramInterval THEN @ + 1 ELSE @,
                              !.periodicTelegramInterval = TRUE]
              ELSE w1
    IN  notifyUpdate(w2)

\* lines 336-343: the continuation of the initial getPrice
startPriceSettled(w, c, result) ==
    IF Rejected(result) THEN w
    ELSE activate([w EXCEPT !.state.currentPrice = result,
                            !.state.startPrice = result,
                            !.state.chartData =
                                <<[time |-> 0, price |-> result, fastMA |-> Undefined,
                                   slowMA |-> Undefined, riskLine |-> Undefined]>>],
                  c)

\* lines 319-354: start once past the isRunning check
startIdle(w, settings, backtestData, isLive) ==
    LET w1 == [w EXCEPT !.state.settings = <<settings>>,
                        !.state.backtestData = backtestData,
                        !.state.backtestIndex = 0,
                        !.state.account =
                            <<[base |-> FromInt(0),
                               quote |-> FromInt(settings.initialBalance)]>>,
                        !.state.trades = <<>>,
                        !.state.openPositions = <<>>,
                        !.state.tradeIdCounter = 0,
                        !.state.lowestAccountValue = FromInt(settings.initialBalance),
                        !.state.highestAccountValue = FromInt(settings.initialBalance)]
        \* of its arguments, the rest of start reads telegramSettings, isLive
        \* and, for the timer period only, granularity and backtestData
        c == Continuation("startPrice",
                          [telegramSettings |-> settings.telegramSettings],
                          Null, isLive, 0, 0, NoMAs)
    IN  IF backtestData # Null /\ Len(backtestData[1]) > 0
        THEN activate([w1 EXCEPT !.state.currentPrice = backtestData[1][1].price,
                                 !.state.startPrice = backtestData[1][1].price,
                                 !.state.chartData = <<>>],
                      c)
        ELSE Suspend(w1, c)

\* variant: start without the isRunning check of line 317
startAlways(w, settings, backtestData, isLive) ==
    startIdle(w, settings, backtestData, isLive)

start(w, settings, backtestData, isLive) ==
    IF w.state.isRunning THEN w
    ELSE startIdle(w, settings, backtestData, isLive)

\* ------------------------------------------------------------------------
\* Actions: one per event of the Node.js event loop
\* ------------------------------------------------------------------------
\* the arguments of the `start' message: a replay series, no series (live),
\* or an empty one
LiveSettingsChoices == { s \in SettingsChoices : s.telegramSettings.isTested }

StartArguments ==
    { [settings |-> s, backtestData |-> <<d>>, isLive |-> FALSE] :
          s \in SettingsChoices, d \in SeriesChoices }
    \cup { [settings |-> s, backtestData |-> Null, isLive |-> TRUE] :
          s \in LiveSettingsChoices }
    \cup { [settings |-> s, backtestData |-> << <<>> >>, isLive |-> FALSE] :
          s \in LiveSettingsChoices }

\* a `start' request with one of the given arguments, as long as fewer than
\* `limit' sessions have been started
StartWith(arguments, limit) ==
    \E a \in arguments :
        /\ state.isRunning \/ sessions < limit
        /\ Becomes(start(World, a.settings, a.backtestData, a.isLive))
        /\ sessions' = IF state.isRunning THEN sessions ELSE sessions + 1

Start == StartWith(StartArguments, MaxSessions)

Stop == Becomes(stop(World)) /\ UNCHANGED sessions

\* an `updateSettings' request with one of the given partial objects
UpdateSettingsWith(partials) ==
    \E p \in partials : Becomes(updateSettings(World, p)) /\ UNCHANGED sessions

UpdateSettings == UpdateSettingsWith(PartialChoices)

\* a tick interval fires: the one the engine holds, or one it has lost
TimerFires ==
    /\ tradingInterval \/ orphanTickTimers > 0
    /\ Becomes(executeTick(World))
    /\ UNCHANGED sessions

Resumed(i) == [World EXCEPT !.pending = RemoveAt(@, i)]

GetPriceSettles ==
    \E i \in 1..Len(pending), result \in FetchResults :
        /\ pending[i].pc = "getPrice"
        /\ Becomes(getPriceSettled(Resumed(i), pending[i], result))
        /\ UNCHANGED sessions

StartPriceSettles ==
    \E i \in 1..Len(pending), result \in FetchResults :
        /\ pending[i].pc = "startPrice"
        /\ Becomes(startPriceSettled(Resumed(i), pending[i], result))
        /\ UNCHANGED sessions

SellNotificationSettles ==
    \E i \in 1..Len(pending), ok \in BOOLEAN :
        /\ pending[i].pc = "sellNotify"
        /\ Becomes(sellNotifySettled(Resumed(i), pending[i], ok))
        /\ UNCHANGED sessions

BuyNotificationSettles ==
    \E i \in 1..Len(pending), ok \in BOOLEAN :
        /\ pending[i].pc = "buyNotify"
        /\ Becomes(buyNotifySettled(Resumed(i), pending[i], ok))
        /\ UNCHANGED sessions

Next ==
    \/ Start
    \/ Stop
    \/ UpdateSettings
    \/ TimerFires
    \/ GetPriceSettles
    \/ StartPriceSettles
    \/ SellNotificationSettles
    \/ BuyNotificationSettles

Spec == Init /\ [][Next]_vars

\* setInterval calls executeTick again and again for as long as a handle is
\* armed: the timer callback is weakly fair.  TimerWouldAct is
\* ENABLED <<TimerFires>>_vars written as a predicate of the state.
TimerWouldAct ==
    /\ tradingInterval \/ orphanTickTimers > 0
    /\ executeTick(World) # World

TimerFairness == []<>(~TimerWouldAct) \/ []<><<TimerFires>>_vars

FairSpec == Spec /\ TimerFairness

\* ------------------------------------------------------------------------
\* Vocabulary of the properties
\* ------------------------------------------------------------------------
Max(a, b) == IF a > b THEN a ELSE b

IsPrefix(s, t) == Len(s) <= Len(t) /\ SubSeq(t, 1, Len(s)) = s

\* the trades a step appends to the log
NewTrades ==
    IF IsPrefix(state.trades, state'.trades)
    THEN SubSeq(state'.trades, Len(state.trades) + 1, Len(state'.trades))
    ELSE <<>>

\* the step is a start() that found the engine idle and reset it
IsReset == sessions' # sessions

\* the step is a tick taking the next point of the replay series
ConsumesPoint ==
    /\ ~IsReset
    /\ state'.backtestIndex = state.backtestIndex + 1

Replaying ==
    /\ state.isRunning
    /\ state.backtestData # Null
    /\ Len(state.backtestData[1]) > 0

SuspendedTicks == { i \in 1..Len(pending) : pending[i].pc \in {"sellNotify", "buyNotify"} }

RECURSIVE ApplyTrades(_, _)
ApplyTrades(account, trades) ==
    IF trades = <<>> THEN account
    ELSE LET t == Head(trades)
             value == RMul(t.amount, FromInt(t.price))
             a == account[1]
         IN  ApplyTrades(
                 IF t.type = "BUY"
                 THEN <<[base |-> RAdd(a.base, t.amount), quote |-> RSub(a.quote, value)]>>
                 ELSE <<[base |-> RSub(a.base, t.amount), quote |-> RAdd(a.quote, value)]>>,
                 Tail(trades))

\* ------------------------------------------------------------------------
\* C1
\* ------------------------------------------------------------------------
\* C1 as stated: after every tick that takes a price point, the number of
\* open positions is at most the maxConcurrentPositions currently in the
\* settings.
C1_AsStated ==
    [][ConsumesPoint =>
          Len(state'.openPositions) <= state'.settings[1].maxConcurrentPositions]_vars

\* C1 amended: no step raises the number of open positions above the
\* maxConcurrentPositions currently in the settings; the number can exceed
\* that value only as far as it already did before the step, which happens
\* when updateSettings lowers the value below the number of open positions.
C1_NeverRaisedAboveMax ==
    [][state'.settings # Null =>
          Len(state'.openPositions) <=
              Max(Len(state.openPositions), state'.settings[1].maxConcurrentPositions)]_vars

\* a buy has filled the last free slot of two
C1_Witness ==
    /\ state.settings # Null
    /\ Len(state.openPositions) = 2
    /\ state.settings[1].maxConcurrentPositions = 2

\* ------------------------------------------------------------------------
\* C2
\* ------------------------------------------------------------------------
\* C2: a tick that appends a SELL trade for its price sample appends no BUY
\* trade for it.  A step is one uninterrupted run of one tick, so no step
\* appends both a SELL and a BUY.
C2_NeverSellAndBuy ==
    [][~ \E i, j \in 1..Len(NewTrades) :
            /\ NewTrades[i].type = "SELL"
            /\ NewTrades[j].type = "BUY"]_vars

\* ------------------------------------------------------------------------
\* C3
\* ------------------------------------------------------------------------
\* C3: within one session at most one tick is between taking its price
\* sample and finishing, so never two ticks are suspended in mid-processing.
C3_NoOverlap == sessions = 1 => Cardinality(SuspendedTicks) <= 1

\* ------------------------------------------------------------------------
\* C4
\* ------------------------------------------------------------------------
LastPoint(chartData) == chartData[Len(chartData)]

\* C4: the replay index never passes the end of the series; a tick that
\* takes a point takes the next one of the series, in order; a tick fired
\* when the series is used up stops the engine (not running, tick timer
\* cancelled) and touches neither chart, index, trades nor account; and,
\* the timer firing again and again, a running replay is eventually idle.
C4_UsedUpStops ==
    Replaying /\ state.backtestIndex >= Len(state.backtestData[1]) =>
        LET w == executeTick(World)
        IN  /\ ~w.state.isRunning
            /\ ~w.tradingInterval
            /\ w.state.chartData = state.chartData
            /\ w.state.backtestIndex = state.backtestIndex
            /\ w.state.trades = state.trades
            /\ w.state.account = state.account
            /\ w.state.currentPrice = state.currentPrice

C4_InOrder ==
    ConsumesPoint =>
        LET point == state.backtestData[1][state'.backtestIndex]
        IN  /\ LastPoint(state'.chartData).price = point.price
            /\ LastPoint(state'.chartData).time = point.time
            /\ state'.currentPrice = point.price

C4_Exhaustion ==
    /\ [](state.backtestData # Null =>
              state.backtestIndex <= Len(state.backtestData[1]))
    /\ []C4_UsedUpStops
    /\ [][C4_InOrder]_vars
    /\ (Replaying ~> ~state.isRunning)

\* every point of a full-length series was taken and the engine has stopped
C4_Witness ==
    /\ ~state.isRunning
    /\ state.backtestData # Null
    /\ Len(state.backtestData[1]) > WarmLen
    /\ state.backtestIndex = Len(state.backtestData[1])
    /\ Len(state.chartData) = Len(state.backtestData[1])

C7_StopIdempotent ==
    LET once == stop(World)
    IN  /\ ~once.state.isRunning
        /\ ~once.tradingInterval
        /\ ~once.periodicTelegramInterval
        /\ stop(once) = once
        /\ ~state.isRunning => once = World

\* the engine was stopped in the middle of a replay
C7_Witness ==
    /\ ~state.isRunning
    /\ ~tradingInterval
    /\ state.backtestData # Null
    /\ state.backtestIndex > 0
    /\ state.backtestIndex < Len(state.backtestData[1])

\* ------------------------------------------------------------------------
\* C8
\* ------------------------------------------------------------------------
\* C8: a step that appends a SELL with reason "MACD Crossover" closes the
\* position at the head of openPositions: the trade carries its amount, and
\* the positions behind it remain, in their order.
C8_CrossoverSellsOldest ==
    [][\A k \in 1..Len(NewTrades) :
          NewTrades[k].type = "SELL" /\ NewTrades[k].reason = "MACD Crossover" =>
              /\ state.openPositions # <<>>
              /\ NewTrades[k].amount = Head(state.openPositions).amount
              /\ state'.openPositions = Tail(state.openPositions)]_vars

\* of two open positions the crossover has closed the first: the one that
\* is still open was bought right after the one that was sold
C8_Witness ==
    /\ Len(state.trades) = 3
    /\ state.trades[3].type = "SELL"
    /\ state.trades[3].reason = "MACD Crossover"
    /\ state.trades[3].amount = state.trades[1].amount
    /\ state.openPositions = <<state.trades[2]>>

\* ------------------------------------------------------------------------
\* C9
\* ------------------------------------------------------------------------
ShortReplay ==
    /\ state.backtestData # Null
    /\ Len(state.backtestData[1]) > 0
    /\ Len(state.backtestData[1]) < slowPeriodOf(state.settings[1])

StartAccount ==
    <<[base |-> FromInt(0), quote |-> FromInt(state.settings[1].initialBalance)]>>

\* C9: a tick that takes a point of a replay series shorter than slowPeriod
\* sets currentPrice, broadcasts, and leaves account, trades and
\* openPositions alone; and throughout such a replay there is no trade, no
\* open position, and the account is the one it started with.
C9_ShortTick ==
    ShortReplay /\ ConsumesPoint =>
        /\ state'.currentPrice = state.backtestData[1][state'.backtestIndex].price
        /\ updates' # updates
        /\ state'.trades = state.trades
        /\ state'.openPositions = state.openPositions
        /\ state'.account = state.account

C9_WarmUpGating ==
    /\ [][C9_ShortTick]_vars
    /\ [](ShortReplay =>
              /\ state.trades = <<>>
              /\ state.openPositions = <<>>
              /\ state.account = StartAccount)

\* a series one point shorter than slowPeriod has been replayed to its end
C9_Witness ==
    /\ ShortReplay
    /\ Len(state.backtestData[1]) = slowPeriodOf(state.settings[1]) - 1
    /\ state.backtestIndex = Len(state.backtestData[1])
    /\ state.trades = <<>>

\* ------------------------------------------------------------------------
\* C10
\* ------------------------------------------------------------------------
\* C10: while the engine is running, start() with any arguments changes
\* nothing: neither the engine state nor the timers, the suspended
\* continuations or the broadcasts.
C10_StartWhileRunning ==
    state.isRunning =>
        \A a \in StartArguments :
            start(World, a.settings, a.backtestData, a.isLive) = World

\* the engine is running and has traded
C10_Witness ==
    /\ state.isRunning
    /\ tradingInterval
    /\ state.trades # <<>>
    /\ state.backtestIndex > 0

\* ------------------------------------------------------------------------
\* C12
\* ------------------------------------------------------------------------
EmptyReplay == state.backtestData = << <<>> >>

PriceFetches == { i \in 1..Len(pending) : pending[i].pc \in {"getPrice", "startPrice"} }

\* C12: in a session started with an empty replay series no price is asked
\* of the live price provider, no chart point is appended and no trade is
\* made.
C12_EmptySeriesNoSample ==
    sessions = 1 /\ EmptyReplay =>
        /\ PriceFetches = {}
        /\ state.chartData = <<>>
        /\ state.trades = <<>>

\* ------------------------------------------------------------------------
\* C13
\* ------------------------------------------------------------------------
LiveBranch ==
    state.backtestData = Null \/ Len(state.backtestData[1]) = 0

LiveFetches == { i \in 1..Len(pending) : pending[i].pc = "getPrice" }

RejectedFetch == CHOOSE result \in FetchResults : Rejected(result)

\* C13: when the price fetch of a tick fails, the tick ends there: the
\* engine state is what it was except that the in-flight flag is released
\* (so isRunning, account, trades, openPositions and chartData are
\* untouched), the timers stay armed, nothing is broadcast, and a running
\* live engine answers the next firing of the timer with a new price fetch.
C13_FailedFetchSkipsTick ==
    \A i \in LiveFetches :
        LET w == getPriceSettled(Resumed(i), pending[i], RejectedFetch)
        IN  /\ w.state = [state EXCEPT !.isProcessingTick = FALSE]
            /\ w = [Resumed(i) EXCEPT !.state = w.state]
            /\ state.isRunning /\ LiveBranch =>
                   /\ executeTick(w).state = [state EXCEPT !.isProcessingTick = TRUE]
                   /\ Len(executeTick(w).pending) = Len(pending)
                   /\ executeTick(w).pending[Len(pending)].pc = "getPrice"

\* a running live engine is waiting for the price of a tick
C13_Witness ==
    /\ state.isRunning
    /\ state.backtestData = Null
    /\ state.isProcessingTick
    /\ LiveFetches # {}

\* ------------------------------------------------------------------------
\* C15
\* ------------------------------------------------------------------------
\* partial settings objects: those the model sends, one with several fields,
\* one that replaces the nested telegramSettings, one with a field the
\* settings do not have yet, and the empty one
FramePartials ==
    PartialChoices \cup
    { [stopLossPercentage |-> 1, sellTriggerPercentage |-> 2],
      [telegramSettings |-> [isTested |-> FALSE]],
      [tradingPair |-> "BTC-USD"],
      <<>> }

\* C15: updateSettings on a running engine leaves everything but the
\* settings as it is, and in the settings every given field has the given
\* value (a nested object is replaced, not merged) and every other field
\* keeps its value; on an idle engine it changes nothing.
C15_UpdateSettingsFrame ==
    \A p \in FramePartials :
        LET w == updateSettings(World, p)
        IN  IF state.isRunning
            THEN LET old == state.settings[1]
                     new == w.state.settings[1]
                 IN  /\ w = [World EXCEPT !.state.settings = <<new>>]
                     /\ DOMAIN new = DOMAIN old \cup DOMAIN p
                     /\ \A f \in DOMAIN new :
                            new[f] = IF f \in DOMAIN p THEN p[f] ELSE old[f]
            ELSE w = World

\* the settings of a running engine have been updated: the limit in force
\* is below the number of positions opened under the old one
C15_Witness ==
    /\ state.isRunning
    /\ state.settings[1].maxConcurrentPositions = 1
    /\ Len(state.openPositions) = 2

\* ------------------------------------------------------------------------
\* C20
\* ------------------------------------------------------------------------
\* One replay session in which positions are bought at rising prices and the
\* sell trigger is switched on while they are open.
FlatAt(k, price) == [i \in 1..k |-> price]

PrioritySettings == { BaseSettings(4, 0, 2, FALSE), BaseSettings(4, 4, 2, FALSE) }

PriorityPartials == { [sellTriggerPercentage |-> 4] }

PriorityTails == [1..TailLen -> {19, 22, 23, 24}]

PriorityArguments ==
    { [settings |-> s,
       backtestData |-> <<MakeSeries(FlatAt(WarmLen, 20) \o t)>>,
       isLive |-> FALSE] : s \in PrioritySettings, t \in PriorityTails }

PriorityStart == StartWith(PriorityArguments, 1)

PriorityUpdate == UpdateSettingsWith(PriorityPartials)

PriorityNext ==
    \/ PriorityStart
    \/ PriorityUpdate
    \/ TimerFires
    \/ Stop

PrioritySpec == Init /\ [][PriorityNext]_vars

StopLossHits(price) ==
    { i \in 1..Len(state.openPositions) :
         StopLossHit(state.openPositions[i], state.settings[1], price) }

SellTriggerHits(price) ==
    { i \in 1..Len(state.openPositions) :
         SellTriggerHit(state.openPositions[i], state.settings[1], price) }

First(indices) == CHOOSE i \in indices : \A j \in indices : i <= j

\* the price of the point a tick takes, and whether the tick is past warm-up
TickPrice == state.backtestData[1][state.backtestIndex + 1].price

PastWarmUp ==
    ~WarmingUp(indicators(state.chartData, state.settings[1], TickPrice))

\* C20 as stated: on a tick past warm-up, if some open position meets the
\* stop-loss condition, the first such position is closed with reason
\* "Stop Loss"; a "Sell Trigger" close happens only when no open position
\* meets the stop-loss condition.
C20_StopLossBeforeTrigger ==
    [][ConsumesPoint /\ PastWarmUp =>
          /\ StopLossHits(TickPrice) # {} =>
                 /\ NewTrades # <<>>
                 /\ NewTrades[1].type = "SELL"
                 /\ NewTrades[1].reason = "Stop Loss"
                 /\ NewTrades[1].amount =
                        state.openPositions[First(StopLossHits(TickPrice))].amount
          /\ \A k \in 1..Len(NewTrades) :
                 NewTrades[k].reason = "Sell Trigger" => StopLossHits(TickPrice) = {}]_vars

\* C20 amended: on a tick past warm-up, if some open position meets the
\* stop-loss or the sell-trigger condition, the position closed is the
\* first in FIFO order that meets either of them, with reason "Stop Loss" if
\* it meets the stop-loss condition and "Sell Trigger" otherwise; stop-loss
\* comes first for each position, not across the list.
C20_FirstQualifyingPosition ==
    [][ConsumesPoint /\ PastWarmUp =>
          LET hits == StopLossHits(TickPrice) \cup SellTriggerHits(TickPrice)
          IN  /\ hits # {} =>
                     /\ NewTrades # <<>>
                     /\ NewTrades[1].type = "SELL"
                     /\ NewTrades[1].amount = state.openPositions[First(hits)].amount
                     /\ NewTrades[1].reason =
                            IF First(hits) \in StopLossHits(TickPrice)
                            THEN "Stop Loss" ELSE "Sell Trigger"
                     /\ \A k \in 1..Len(state'.openPositions) :
                            k < Len(state.openPositions) =>
                                state'.openPositions[k] =
                                    RemoveAt(state.openPositions, First(hits))[k]
              /\ hits = {} =>
                     \A k \in 1..Len(NewTrades) :
                         NewTrades[k].reason \notin {"Stop Loss", "Sell Trigger"}]_vars

\* the first of two positions was closed by its sell trigger at a price at
\* which the second one met the stop-loss condition
C20_Witness ==
    /\ Len(state.trades) >= 3
    /\ state.trades[3].type = "SELL"
    /\ state.trades[3].reason = "Sell Trigger"
    /\ state.trades[3].amount = state.trades[1].amount
    /\ state.trades[2].type = "BUY"
    /\ StopLossHit(state.trades[2], state.settings[1], state.trades[3].price)

\* ------------------------------------------------------------------------
\* C14
\* ------------------------------------------------------------------------
\* Live and replay sessions in turn, with notifications switched on: a tick
\* of one session may still be in progress when a later session runs.
RestartSettings == { BaseSettings(5, 0, 2, TRUE) }

RestartArguments ==
    { [settings |-> s, backtestData |-> Null, isLive |-> TRUE] : s \in RestartSettings }
    \cup { [settings |-> s,
            backtestData |-> <<MakeSeries(Flat(WarmLen) \o [i \in 1..TailLen |-> 11])>>,
            isLive |-> FALSE] : s \in RestartSettings }

RestartStart == StartWith(RestartArguments, MaxSessions + 1)

RestartNext ==
    \/ RestartStart
    \/ Stop
    \/ TimerFires
    \/ GetPriceSettles
    \/ StartPriceSettles
    \/ SellNotificationSettles
    \/ BuyNotificationSettles

RestartSpec == Init /\ [][RestartNext]_vars

\* ticks of live mode that wait for the dispatch of their notification
NotifyingLiveTicks == { i \in SuspendedTicks : pending[i].backtestData = Null }

\* C14: while a tick waits for its notification to be dispatched, the next
\* firing of the timer still processes a price sample: in live mode, with no
\* price fetch in flight, it asks for the next price.
C14_NotificationNeverBlocksTick ==
    /\ state.isRunning
    /\ tradingInterval
    /\ LiveBranch
    /\ LiveFetches = {}
    /\ NotifyingLiveTicks # {}
    => executeTick(World) # World

\* ------------------------------------------------------------------------
\* C19
\* ------------------------------------------------------------------------
\* A replay that buys and sells, with notifications going to chat id strings
\* of several ids, with blanks and empty parts, or of separators only.
ChatIdChoices ==
    { <<"1", ",", "2">>,
      <<" ", "1", ",", " ", "2", ",", ",", "3", " ">>,
      <<",", " ">> }

DeliverySettings ==
    { [BaseSettings(5, 5, 1, TRUE) EXCEPT !.telegramSettings = TelegramTo(TRUE, chatId)] :
          chatId \in ChatIdChoices }

DeliveryArguments ==
    { [settings |-> s,
       backtestData |-> <<MakeSeries(Flat(WarmLen) \o [i \in 1..TailLen |-> 10 + i])>>,
       isLive |-> FALSE] : s \in DeliverySettings }

DeliveryStart == StartWith(DeliveryArguments, 1)

DeliveryNext ==
    \/ DeliveryStart
    \/ Stop
    \/ TimerFires
    \/ SellNotificationSettles
    \/ BuyNotificationSettles

DeliverySpec == Init /\ [][DeliveryNext]_vars

\* the state after a fetch of the notification of tick i has settled
AfterDelivery(i, ok) ==
    IF pending[i].pc = "sellNotify"
    THEN sellNotifySettled(Resumed(i), pending[i], ok)
    ELSE buyNotifySettled(Resumed(i), pending[i], ok)

\* the continuations in `waiting' that belong to the notification of c
Deliveries(waiting, c) ==
    { j \in 1..Len(waiting) :
        /\ waiting[j].pc = c.pc
        /\ waiting[j].newTime = c.newTime
        /\ waiting[j].chatIds = c.chatIds }

\* C19: the delivery attempts of a notification so far are the first ids of
\* its list, one attempt each; when an attempt settles, fulfilled or rejected,
\* and ids remain, the next id is attempted and the tick keeps waiting; after
\* the last id the tick goes on and no further attempt is made.
C19_EveryIdAttemptedOnce ==
    \A i \in SuspendedTicks, ok \in BOOLEAN :
        LET c == pending[i]
            n == Len(c.attempted)
            after == AfterDelivery(i, ok)
        IN  /\ n >= 1
            /\ n <= Len(c.chatIds)
            /\ c.attempted = SubSeq(c.chatIds, 1, n)
            /\ n < Len(c.chatIds) =>
                   /\ after.state = state
                   /\ after.pending =
                          Append(RemoveAt(pending, i),
                                 [c EXCEPT !.attempted = SubSeq(c.chatIds, 1, n + 1)])
            /\ n = Len(c.chatIds) =>
                   \A j \in Deliveries(after.pending, c) :
                       j \in Deliveries(RemoveAt(pending, i), c)

\* a notification to three ids, parsed from a string with blanks and an
\* empty part, is at its third attempt
C19_Witness ==
    \E i \in SuspendedTicks :
        /\ pending[i].chatIds = << <<"1">>, <<"2">>, <<"3">> >>
        /\ pending[i].attempted = pending[i].chatIds

\* ------------------------------------------------------------------------
\* The server: observers and the REST routes (server.js)
\* ------------------------------------------------------------------------
maxClients == 10

\* a socket as the server sees it: readyState 1 is OPEN and 2 is CLOSING,
\* onMessage tells whether the message handler is attached, inbox is the
\* message it was sent last
NewSocket == [readyState |-> 1, closeCode |-> 0, onMessage |-> FALSE, inbox |-> Null]

\* variant: a limit that lets one more socket in
atCapacityLate(size) == size > maxClients + 1

\* server.js line 65
atCapacity(size) == size > maxClients

\* server.js lines 63-100: the socket is in wss.clients when the handler runs
onConnection(w) ==
    LET joined == [w EXCEPT !.clients = Append(@, NewSocket)]
        ws == Len(joined.clients)
    IN  IF atCapacity(Len(joined.clients))
        THEN [joined EXCEPT !.clients[ws].readyState = 2,
                            !.clients[ws].closeCode = 1008]
        ELSE [broadcastUpdate(joined) EXCEPT !.clients[ws].onMessage = TRUE]

\* an observer connects, as long as fewer than `limit' sockets exist
ConnectWith(limit) ==
    /\ Len(clients) < limit
    /\ Becomes(onConnection(World))
    /\ UNCHANGED sessions

\* an observer goes away: its socket leaves wss.clients, and the handler of
\* `close' (server.js lines 97-99) does nothing
ClientLeaves ==
    \E i \in 1..Len(clients) :
        /\ clients[i].readyState = 1
        /\ Becomes([World EXCEPT !.clients = RemoveAt(@, i)])
        /\ UNCHANGED sessions

\* the closing handshake of a socket the server closed is over
CloseCompletes ==
    \E i \in 1..Len(clients) :
        /\ clients[i].readyState = 2
        /\ Becomes([World EXCEPT !.clients = RemoveAt(@, i)])
        /\ UNCHANGED sessions

\* server.js lines 88-90: a `getState' message from a socket with a handler
WsGetState ==
    \E i \in 1..Len(clients) :
        /\ clients[i].readyState = 1
        /\ clients[i].onMessage
        /\ Becomes(broadcastUpdate(World))
        /\ UNCHANGED sessions

\* server.js lines 115-124
StateBody(engineState) ==
    [isRunning |-> engineState.isRunning,
     account |-> engineState.account,
     currentPrice |-> engineState.currentPrice,
     trades |-> engineState.trades,
     chartData |-> engineState.chartData]

getApiState(w) ==
    [w EXCEPT !.response =
        <<[request |-> "GET /api/state", body |-> StateBody(w.state)]>>]

GetApiState == Becomes(getApiState(World)) /\ UNCHANGED sessions

\* server.js lines 129-133: start is called and not awaited, then the
\* response is sent
postStart(w, settings, backtestData, isLive) ==
    [start(w, settings, backtestData, isLive) EXCEPT !.response =
        <<[request |-> "POST /api/start", body |-> [success |-> TRUE]]>>]

PostStartWith(arguments, limit) ==
    \E a \in arguments :
        /\ state.isRunning \/ sessions < limit
        /\ Becomes(postStart(World, a.settings, a.backtestData, a.isLive))
        /\ sessions' = IF state.isRunning THEN sessions ELSE sessions + 1

\* server.js lines 138-141
postStop(w) ==
    [stop(w) EXCEPT !.response =
        <<[request |-> "POST /api/stop", body |-> [success |-> TRUE]]>>]

PostStop == Becomes(postStop(World)) /\ UNCHANGED sessions

\* ------------------------------------------------------------------------
\* C17
\* ------------------------------------------------------------------------
\* Observers come and go while a short replay runs and stops.
CapacityArguments ==
    { [settings |-> BaseSettings(50, 0, 2, FALSE),
       backtestData |-> <<MakeSeries(Flat(TailLen))>>,
       isLive |-> FALSE] }

CapacityStart == StartWith(CapacityArguments, 1)
CapacityConnect == ConnectWith(maxClients + 2)

CapacityNext ==
    \/ CapacityStart
    \/ TimerFires
    \/ CapacityConnect
    \/ ClientLeaves
    \/ CloseCompletes
    \/ WsGetState

CapacitySpec == Init /\ [][CapacityNext]_vars

Served == { i \in 1..Len(clients) : clients[i].readyState = 1 }
Turned == { i \in 1..Len(clients) : clients[i].closeCode = 1008 }
TurnedAway == [readyState |-> 2, closeCode |-> 1008, onMessage |-> FALSE, inbox |-> Null]

\* at most ten sockets are served, each with its handler; a socket that was
\* turned away is closing, has no handler and has been sent nothing
C17_AtMostTenServed ==
    /\ Cardinality(Served) <= 10
    /\ \A i \in Served : clients[i].onMessage
    /\ \A i \in Turned : clients[i] = TurnedAway

\* a connection that arrives while ten observers are served is turned away
\* and the sockets of the others stay as they are
C17_EleventhTurnedAway ==
    [][Len(clients') = Len(clients) + 1 /\ Cardinality(Served) = 10
           => clients' = Append(clients, TurnedAway)]_vars

\* C17: the server never serves more than 10 observers at once; a connection
\* arriving when 10 observers are connected is closed with code 1008, is sent
\* no snapshot and gets no message handler, and the observers already there
\* are unaffected.
C17_ObserverCap == []C17_AtMostTenServed /\ C17_EleventhTurnedAway

\* ten observers are served, each holding the snapshot of the replay that
\* has run in the meantime, and a further socket has been turned away
C17_Witness ==
    /\ Cardinality(Served) = 10
    /\ Turned # {}
    /\ \A i \in Served : clients[i].inbox # Null /\ clients[i].inbox[1].chartData # <<>>

\* ------------------------------------------------------------------------
\* C11
\* ------------------------------------------------------------------------
\* The REST routes: live sessions and short replays are started and stopped,
\* and the state is pulled.
RestArguments ==
    { [settings |-> BaseSettings(5, 0, 2, TRUE), backtestData |-> Null, isLive |-> TRUE],
      [settings |-> BaseSettings(5, 0, 2, TRUE),
       backtestData |-> <<MakeSeries(Flat(TailLen))>>, isLive |-> FALSE] }

RestStart == PostStartWith(RestArguments, MaxSessions)

RestNext ==
    \/ RestStart
    \/ PostStop
    \/ GetApiState
    \/ TimerFires
    \/ StartPriceSettles
    \/ GetPriceSettles

RestSpec == Init /\ [][RestNext]_vars

\* the first start was a live one and its initial price fetch was rejected
FirstStartAborted ==
    /\ sessions = 1
    /\ state.settings # Null
    /\ LiveBranch
    /\ state.chartData = <<>>
    /\ \A i \in 1..Len(pending) : pending[i].pc # "startPrice"

\* C11: when the initial live price cannot be fetched, the engine remains
\* idle with no tick timer, and the response to the start request, if it is
\* the last response sent, is not a success response.
C11_AbortedStartReported ==
    FirstStartAborted =>
        /\ ~state.isRunning
        /\ ~tradingInterval
        /\ response # Null /\ response[1].request = "POST /api/start"
               => ~response[1].body.success

\* ------------------------------------------------------------------------
\* C16, C18
\* ------------------------------------------------------------------------
\* A replay that buys and sells, with and without notifications, watched by
\* up to MaxObservers observers and polled over REST.
MaxObservers == 2

ObserverArguments ==
    { [settings |-> BaseSettings(5, 5, 1, tg),
       backtestData |-> <<MakeSeries(Flat(WarmLen) \o [i \in 1..TailLen |-> 10 + i])>>,
       isLive |-> FALSE] : tg \in BOOLEAN }
    \cup { [settings |-> BaseSettings(5, 5, 1, TRUE), backtestData |-> Null,
            isLive |-> TRUE] }

ObserverStart == StartWith(ObserverArguments, 1)
ObserverConnect == ConnectWith(MaxObservers)

ObserverNext ==
    \/ ObserverStart
    \/ Stop
    \/ TimerFires
    \/ SellNotificationSettles
    \/ BuyNotificationSettles
    \/ StartPriceSettles
    \/ GetPriceSettles
    \/ ObserverConnect
    \/ ClientLeaves
    \/ WsGetState
    \/ GetApiState

ObserverSpec == Init /\ [][ObserverNext]_vars

\* the state once the tick suspended as c has run to its end, every fetch of
\* its notifications having been fulfilled; w is the world without c
RECURSIVE Completed(_, _)
Completed(w, c) ==
    LET after == IF c.pc = "sellNotify" THEN sellNotifySettled(w, c, TRUE)
                 ELSE buyNotifySettled(w, c, TRUE)
        n == Len(after.pending)
    IN  IF n > Len(w.pending)
        THEN Completed([after EXCEPT !.pending = SubSeq(@, 1, n - 1)], after.pending[n])
        ELSE after

\* C16: every snapshot that reaches an observer, pushed or pulled, is taken
\* from a state in which no tick is half done.  A state pull and a connection
\* can come in any state, so: in every state, what GET /api/state returns
\* and what a connection makes the server push are the state as it is once
\* each tick in progress has fully completed.
C16_SnapshotsAreWhole ==
    LET pulled == getApiState(World).response[1].body
        joined == onConnection(World).clients
    IN  \A i \in SuspendedTicks :
            LET done == Completed(Resumed(i), pending[i]).state
            IN  /\ pulled = StateBody(done)
                /\ \A k \in 1..Len(joined) :
                       joined[k].readyState = 1 => joined[k].inbox = <<Snapshot(done)>>

\* every open observer holds the snapshot of the state of w
Observed(w) ==
    \A i \in 1..Len(w.clients) :
        w.clients[i].readyState = 1 => w.clients[i].inbox = <<Snapshot(w.state)>>

HasPoint(w, time, price) ==
    \E k \in 1..Len(w.state.chartData) :
        w.state.chartData[k].time = time /\ w.state.chartData[k].price = price

\* a timer tick of a replay that takes a point and runs to its end at once
C18_ReplayTick ==
    LET after == executeTick(World)
    IN  after.state.backtestIndex = state.backtestIndex + 1 /\ after.pending = pending
        => /\ Observed(after)
           /\ after.state.currentPrice = state.backtestData[1][state.backtestIndex + 1].price
           /\ HasPoint(after, state.backtestData[1][state.backtestIndex + 1].time,
                       after.state.currentPrice)
           /\ IsPrefix(state.trades, after.state.trades)

\* a live tick whose price arrives and that runs to its end at once
C18_LiveTick ==
    \A i \in LiveFetches, price \in LivePrices :
        LET after == getPriceSettled(Resumed(i), pending[i], price)
        IN  Len(after.pending) < Len(pending)
            => /\ Observed(after)
               /\ after.state.currentPrice = price
               /\ HasPoint(after, 0, price)
               /\ IsPrefix(state.trades, after.state.trades)

\* a tick that ends when the last fetch of its notification settles
C18_NotifiedTick ==
    \A i \in SuspendedTicks, ok \in BOOLEAN :
        LET after == AfterDelivery(i, ok)
        IN  Len(after.pending) < Len(pending)
            => /\ Observed(after)
               /\ HasPoint(after, pending[i].newTime, pending[i].newPrice)
               /\ IsPrefix(state.trades, after.state.trades)

\* an observer that is let in
C18_Connect ==
    LET after == onConnection(World)
    IN  ~atCapacity(Len(clients) + 1)
        => /\ Observed(after)
           /\ after.state = state
           /\ Len(after.clients) = Len(clients) + 1

LiveTicksInProgress == LiveFetches \cup NotifyingLiveTicks

\* C21: the in-flight flag is set only while a live tick is in progress:
\* whenever no live tick waits for its price or its notification, the flag
\* is false.
C21_FlagOnlyWhileInFlight ==
    state.isProcessingTick => LiveTicksInProgress # {}

\* ------------------------------------------------------------------------
\* C22
\* ------------------------------------------------------------------------
\* C22: the previous moving averages a tick compares with are those of the
\* chart point of the tick before it: for whatever price the next tick
\* takes, its prevFastMA and prevSlowMA are the fastMA and slowMA of the last
\* chart point.
C22_PreviousTickAverages ==
    state.settings # Null /\ state.chartData # <<>> =>
        \A price \in TailPrices :
            LET mas == indicators(state.chartData,
                                  IndicatorSettings(state.settings[1]), price)
                last == state.chartData[Len(state.chartData)]
            IN  /\ mas.prevFastMA = last.fastMA
                /\ mas.prevSlowMA = last.slowMA

\* ------------------------------------------------------------------------
\* C23
\* ------------------------------------------------------------------------
OfType(trades, type) == SelectSeq(trades, LAMBDA t : t.type = type)

\* sub is seq with some elements left out
RECURSIVE IsSubsequence(_, _)
IsSubsequence(sub, seq) ==
    IF sub = <<>> THEN TRUE
    ELSE IF seq = <<>> THEN FALSE
    ELSE IF Head(sub) = Head(seq) THEN IsSubsequence(Tail(sub), Tail(seq))
    ELSE IsSubsequence(sub, Tail(seq))

\* the open positions are BUY trades of the log, in the order of the log, as
\* many as there are BUY trades without a SELL
C23_OpenPositionsAreUnsoldBuys ==
    /\ IsSubsequence(state.openPositions, OfType(state.trades, "BUY"))
    /\ Len(state.openPositions) =
           Len(OfType(state.trades, "BUY")) - Len(OfType(state.trades, "SELL"))

\* a step that appends trades changes the number of open positions by the
\* BUY trades less the SELL trades it appends
C23_SellRemovesOne ==
    [][~IsReset /\ NewTrades # <<>> =>
           Len(state'.openPositions) =
               Len(state.openPositions) + Len(OfType(NewTrades, "BUY"))
                                        - Len(OfType(NewTrades, "SELL"))]_vars

\* C23: in every reachable state openPositions is the list of the BUY trades
\* of the log that have not been closed, in the order they were opened, and
\* every SELL trade removes exactly one open position, so that
\* len(openPositions) = (number of BUY trades) - (number of SELL trades).
C23_LedgerConsistency == []C23_OpenPositionsAreUnsoldBuys /\ C23_SellRemovesOne

\* a position has been sold and a later one is open
C23_Witness ==
    /\ OfType(state.trades, "SELL") # <<>>
    /\ state.openPositions # <<>>
    /\ state.openPositions[1].id > OfType(state.trades, "SELL")[1].id

\* ------------------------------------------------------------------------
\* C24
\* ------------------------------------------------------------------------
\* the ids handed out so far, going by the counter: a trade takes the value
\* of the counter as its id and increments it
IssuedIds == 0..(state.tradeIdCounter - 1)

\* C24: trade ids are unique over the lifetime of the process: an id that
\* has been handed out stays handed out, so that no later trade, of this
\* session or of a following one, gets it again.
C24_IdsNeverIssuedTwice ==
    [][IssuedIds \subseteq IssuedIds']_vars

\* ------------------------------------------------------------------------
\* C29
\* ------------------------------------------------------------------------
\* the sum of the amounts, and of amount * price, over a list of trades
RECURSIVE SumAmounts(_)
SumAmounts(trades) ==
    IF trades = <<>> THEN FromInt(0)
    ELSE RAdd(Head(trades).amount, SumAmounts(Tail(trades)))

RECURSIVE SumValues(_)
SumValues(trades) ==
    IF trades = <<>> THEN FromInt(0)
    ELSE RAdd(RMul(Head(trades).amount, FromInt(Head(trades).price)),
              SumValues(Tail(trades)))

StartStep == IsReset \/ state'.isRunning

\* C26: while the engine is stopped, and until the next start(), no trade is
\* appended and account, openPositions, chart history and currentPrice stay
\* as they are, whatever tick was suspended when stop() was called.
C26_FrozenWhileStopped ==
    [][~state.isRunning /\ ~StartStep =>
           /\ state'.trades = state.trades
           /\ state'.account = state.account
           /\ state'.openPositions = state.openPositions
           /\ state'.chartData = state.chartData
           /\ state'.currentPrice = state.currentPrice]_vars

\* ------------------------------------------------------------------------
\* C27
\* ------------------------------------------------------------------------
\* C27: there is never a tick timer or a periodic timer besides the one whose
\* handle the engine holds, and a stopped engine with no start() under way
\* has no timer at all.
C27_NoOrphanedTimer ==
    /\ orphanTickTimers = 0
    /\ orphanPeriodicTimers = 0
    /\ ~state.isRunning /\ (\A i \in 1..Len(pending) : pending[i].pc # "startPrice")
           => ~tradingInterval /\ ~periodicTelegramInterval

\* ------------------------------------------------------------------------
\* runHeadlessSimulation (simulationService.ts)
\* ------------------------------------------------------------------------
\* lines 19-25: the locals of the simulation; `decisions' lists the sells
\* (line 91) and buys (line 103) it makes, which the code does not record
simulationStart(settings) ==
    [account |-> [base |-> FromInt(0), quote |-> FromInt(settings.initialBalance)],
     openPositions |-> <<>>, tradeIdCounter |-> 0, priceHistory |-> <<>>,
     fastMAHistory |-> <<>>, slowMAHistory |-> <<>>, decisions |-> <<>>]

Decision(type, point, amount) ==
    [type |-> type, time |-> point.time, price |-> point.price, amount |-> amount]

\* lines 31-107: the body of the loop for one point
simulationPoint(sim, settings, point) ==
    LET newPrice == point.price
        pushed == Append(sim.priceHistory, newPrice)
        priceHistory == IF Len(pushed) > riskPeriod + 500 THEN Tail(pushed) ELSE pushed
        fastMA == calculateSMA(priceHistory, fastPeriodOf(settings), fastPeriodOf(settings))
        slowMA == calculateSMA(priceHistory, slowPeriodOf(settings), slowPeriodOf(settings))
        prevFastMA == IF Len(sim.fastMAHistory) > 0
                      THEN sim.fastMAHistory[Len(sim.fastMAHistory)] ELSE Undefined
        prevSlowMA == IF Len(sim.slowMAHistory) > 0
                      THEN sim.slowMAHistory[Len(sim.slowMAHistory)] ELSE Undefined
        marketAverage == calculateSMA(priceHistory, riskPeriod, riskMinPoints)
        riskLine == riskLineOf(marketAverage, settings)
        mas == [fastMA |-> fastMA, slowMA |-> slowMA, prevFastMA |-> prevFastMA,
                prevSlowMA |-> prevSlowMA, riskLine |-> riskLine]
        s1 == [sim EXCEPT !.priceHistory = priceHistory,
                          !.fastMAHistory = <<fastMA>>,
                          !.slowMAHistory = <<slowMA>>]
        sel == positionToSell(s1.openPositions, settings,
                              [newPrice |-> newPrice, mas |-> mas])
        tradeAmountQuote == tradeAmountQuoteOf(s1.account, settings)
        buyAmount == RDiv(tradeAmountQuote, FromInt(newPrice))
    IN  IF WarmingUp(mas) THEN s1
        ELSE IF sel.index # 0
        THEN LET sellAmount == s1.openPositions[sel.index].amount
             IN  [s1 EXCEPT !.account =
                                [base |-> RSub(s1.account.base, sellAmount),
                                 quote |-> RAdd(s1.account.quote,
                                                RMul(sellAmount, FromInt(newPrice)))],
                            !.openPositions = RemoveAt(@, sel.index),
                            !.decisions = Append(@, Decision("SELL", point, sellAmount))]
        ELSE IF /\ RLess(slowMA, fastMA)
                /\ RLeq(prevFastMA, prevSlowMA)
                /\ Len(s1.openPositions) < settings.maxConcurrentPositions
                /\ Truthy(riskLine)
                /\ RLess(FromInt(newPrice), riskLine)
                /\ RLeq(tradeAmountQuote, s1.account.quote)
                /\ RLess(FromInt(1), tradeAmountQuote)
        THEN [s1 EXCEPT !.account =
                            [base |-> RAdd(s1.account.base, buyAmount),
                             quote |-> RSub(s1.account.quote, tradeAmountQuote)],
                        !.tradeIdCounter = @ + 1,
                        !.openPositions =
                            Append(@, [id |-> s1.tradeIdCounter, type |-> "BUY",
                                       price |-> newPrice, time |-> point.time,
                                       amount |-> buyAmount, reason |-> "MACD Crossover"]),
                        !.decisions = Append(@, Decision("BUY", point, buyAmount))]
        ELSE s1

\* lines 11-29: the call, up to the loop
simulationCalled(settings, backtestData) ==
    [settings |-> settings, backtestData |-> backtestData, index |-> 0,
     locals |-> simulationStart(settings),
     result |-> IF backtestData = <<>> THEN <<FromInt(0)>> ELSE Null]

\* lines 110-112: the profit returned after the loop
simulationProfit(run) ==
    RSub(accountValueAt(run.locals.account,
                        run.backtestData[Len(run.backtestData)].price),
         FromInt(run.settings.initialBalance))

\* one turn of the loop, and the return after the last one
simulationTurn(run) ==
    LET turned == [run EXCEPT !.index = @ + 1,
                              !.locals = simulationPoint(@, run.settings,
                                                         run.backtestData[run.index + 1])]
    IN  IF turned.index = Len(run.backtestData)
        THEN [turned EXCEPT !.result = <<simulationProfit(turned)>>]
        ELSE turned

\* ------------------------------------------------------------------------
\* C28
\* ------------------------------------------------------------------------
\* Replays without notifications, run by the timer and stopped at will.
ReplayArguments ==
    { [settings |-> s, backtestData |-> <<d>>, isLive |-> FALSE] :
          s \in { t \in SettingsChoices : ~t.telegramSettings.isTested },
          d \in SeriesChoices }

ReplayStart == StartWith(ReplayArguments, 1)

\* runHeadlessSimulation is called with the settings and the series the
\* engine was started with
SimulationCalled ==
    /\ state.settings # Null
    /\ simulation = Null
    /\ Becomes([World EXCEPT !.simulation =
                   <<simulationCalled(state.settings[1], state.backtestData[1])>>])
    /\ UNCHANGED sessions

SimulationTurns ==
    /\ simulation # Null
    /\ simulation[1].result = Null
    /\ Becomes([World EXCEPT !.simulation = <<simulationTurn(simulation[1])>>])
    /\ UNCHANGED sessions

ReplayNext ==
    \/ ReplayStart
    \/ TimerFires
    \/ Stop
    \/ SimulationCalled
    \/ SimulationTurns

ReplaySpec == Init /\ [][ReplayNext]_vars

\* the decisions in the trade log of the engine
Decisions(trades) ==
    [i \in 1..Len(trades) |->
        [type |-> trades[i].type, time |-> trades[i].time,
         price |-> trades[i].price, amount |-> trades[i].amount]]

\* C28: on the same settings and series, with notifications disabled, the
\* engine and runHeadlessSimulation agree: when both have gone through the
\* same number of points they have made the same BUY and SELL decisions and
\* have the same account, and at the end of the series the profit the
\* simulation returns is the profit of the engine.
C28_SimulationAgreesWithEngine ==
    simulation # Null /\ simulation[1].index = state.backtestIndex =>
        /\ Decisions(state.trades) = simulation[1].locals.decisions
        /\ state.account[1] = simulation[1].locals.account
        /\ simulation[1].result # Null =>
               Snapshot(state).profit = simulation[1].result[1]

\* ------------------------------------------------------------------------
\* C25
\* ------------------------------------------------------------------------
\* Calls of calculateSMA: series of up to MaxSeries points and the series of
\* five points, periods from 1, and a minPoints of at most the period or
\* none, the parameter then defaulting to the period.
MaxSeries == 3
MaxPeriod == 3
SmaPrices == {1, 2, 3}

SmaSeries ==
    UNION { [1..n -> SmaPrices] : n \in 0..MaxSeries } \cup { <<1, 2, 3, 4, 5>> }

SmaCalls ==
    { [data |-> data, period |-> period, minPoints |-> minPoints, returned |-> Null] :
          data \in SmaSeries,
          period \in 1..MaxPeriod,
          minPoints \in {Null} \cup { <<m>> : m \in (-1)..MaxPeriod } }

\* minPoints = period, the default of the parameter
minPointsOf(call) ==
    IF call.minPoints = Null THEN call.period ELSE call.minPoints[1]

SmaInit == \E call \in { c \in SmaCalls : minPointsOf(c) <= c.period } : InitWith(<<call>>)

CalculateSMAReturns ==
    /\ evaluation # Null
    /\ evaluation[1].returned = Null
    /\ Becomes([World EXCEPT !.evaluation[1].returned =
                   <<calculateSMA(evaluation[1].data, evaluation[1].period,
                                  minPointsOf(evaluation[1]))>>])
    /\ UNCHANGED sessions

SmaNext == CalculateSMAReturns

SmaSpec == SmaInit /\ [][SmaNext]_vars

Min(a, b) == IF a < b THEN a ELSE b

\* the sum of data[lo], ..., data[hi]
RECURSIVE SumBetween(_, _, _)
SumBetween(data, lo, hi) ==
    IF lo > hi THEN 0 ELSE data[hi] + SumBetween(data, lo, hi - 1)

\* value is the arithmetic mean of the last count elements of data
IsMeanOfLast(value, data, count) ==
    /\ count > 0
    /\ IsDefined(value)
    /\ value.n * count = value.d * SumBetween(data, Len(data) - count + 1, Len(data))

\* what the call returned is what C25 says of it
AsStated(call) ==
    IF Len(call.data) < minPointsOf(call)
    THEN call.returned[1] = Undefined
    ELSE IsMeanOfLast(call.returned[1], call.data, Min(call.period, Len(call.data)))

Returned(data, period, minPoints) ==
    /\ evaluation # Null
    /\ evaluation[1].returned # Null
    /\ evaluation[1].data = data
    /\ evaluation[1].period = period
    /\ evaluation[1].minPoints = minPoints

C25_MeanOrAbsentOfSomething ==
    /\ evaluation # Null
    /\ evaluation[1].returned # Null
    /\ evaluation[1].data # <<>> \/ minPointsOf(evaluation[1]) >= 1
    => /\ AsStated(evaluation[1])
       /\ Returned(<<1, 2, 3, 4, 5>>, 3, Null) => evaluation[1].returned[1] = FromInt(4)
       /\ Returned(<<1, 2>>, 3, Null) => evaluation[1].returned[1] = Undefined
       /\ Returned(<<1, 2>>, 3, <<2>>) => evaluation[1].returned[1] = Rat(3, 2)

\* ------------------------------------------------------------------------
\* BackendService (backendService.ts)
\* ------------------------------------------------------------------------
maxReconnectAttempts == 10
MaxReleased == 2
MaxTimers == 2

CONNECTING == 0
OPEN == 1
CLOSING == 2
CLOSED == 3

\* this.ws?.readyState === WebSocket.OPEN
wsIsOpen(b) == b.ws = <<OPEN>>

\* the field gives up the socket it refers to
release(b) ==
    IF b.ws = Null \/ b.ws = <<CLOSED>> THEN b
    ELSE [b EXCEPT !.released[b.ws[1] + 1] = @ + 1]

\* lines 30-72; WS_URL is a constant, the constructor is taken not to throw
connect(b) ==
    IF wsIsOpen(b) \/ b.isConnecting THEN b
    ELSE [release(b) EXCEPT !.isConnecting = TRUE,
                            !.constructed = 1 - @,
                            !.ws = <<CONNECTING>>]

\* lines 74-83
attemptReconnect(b) ==
    IF b.reconnectAttempts < maxReconnectAttempts
    THEN [b EXCEPT !.reconnectAttempts = @ + 1, !.timers = @ + 1]
    ELSE b

\* WebSocket.close(): a socket that is connecting or open starts closing
close(ws) == IF ws = <<CLOSED>> THEN ws ELSE <<CLOSING>>

\* lines 85-91
disconnect(b) ==
    LET closed == IF b.ws # Null
                  THEN [release([b EXCEPT !.ws = close(@)]) EXCEPT !.ws = Null]
                  ELSE b
    IN  [closed EXCEPT !.reconnectAttempts = 0]

\* lines 93-106; the timeout of line 100 sends again if the socket is open
\* by then and changes no field
send(b) == IF wsIsOpen(b) THEN b ELSE connect(b)

\* lines 40-45, run when a socket opens: the one this.ws refers to (held)
\* or one it no longer refers to
onopen(b, held) ==
    LET opened == IF held THEN [b EXCEPT !.ws = <<OPEN>>]
                  ELSE [b EXCEPT !.released[CONNECTING + 1] = @ - 1,
                                 !.released[OPEN + 1] = @ + 1]
    IN  send([opened EXCEPT !.isConnecting = FALSE, !.reconnectAttempts = 0])

\* lines 58-66, run when a socket has closed: onerror, if the connection
\* failed, and onclose; from is the readyState it had
onclose(b, held, from) ==
    LET gone == IF held THEN [b EXCEPT !.ws = <<CLOSED>>]
                ELSE [b EXCEPT !.released[from + 1] = @ - 1]
    IN  attemptReconnect([gone EXCEPT !.isConnecting = FALSE])

BackendBecomes(b) ==
    /\ b.released[1] + b.released[2] + b.released[3] <= MaxReleased
    /\ b.timers <= MaxTimers
    /\ Becomes([World EXCEPT !.backend = b])
    /\ UNCHANGED sessions

BackendConnect == BackendBecomes([connect(backend) EXCEPT !.disconnected = FALSE])

BackendDisconnect == BackendBecomes([disconnect(backend) EXCEPT !.disconnected = TRUE])

BackendSend == BackendBecomes([send(backend) EXCEPT !.disconnected = FALSE])

SocketOpens ==
    \/ /\ backend.ws = <<CONNECTING>>
       /\ BackendBecomes(onopen(backend, TRUE))
    \/ /\ backend.released[CONNECTING + 1] > 0
       /\ BackendBecomes(onopen(backend, FALSE))

\* the connection fails, is lost, or its closing completes
SocketCloses ==
    \/ /\ backend.ws # Null
       /\ backend.ws # <<CLOSED>>
       /\ BackendBecomes(onclose(backend, TRUE, backend.ws[1]))
    \/ \E from \in {CONNECTING, OPEN, CLOSING} :
          /\ backend.released[from + 1] > 0
          /\ BackendBecomes(onclose(backend, FALSE, from))

\* lines 77-79
ReconnectTimerFires ==
    /\ backend.timers > 0
    /\ BackendBecomes(connect([backend EXCEPT !.timers = @ - 1]))

ClientNext ==
    \/ BackendConnect
    \/ BackendDisconnect
    \/ BackendSend
    \/ SocketOpens
    \/ SocketCloses
    \/ ReconnectTimerFires

ClientSpec == Init /\ [][ClientNext]_vars

\* ------------------------------------------------------------------------
\* C30
\* ------------------------------------------------------------------------
\* from disconnect() until connect() or send() is called again
StaysDisconnected == backend.disconnected /\ backend'.disconnected

C30_NothingAfterDisconnect ==
    [][StaysDisconnected =>
          /\ backend'.timers <= backend.timers
          /\ backend'.constructed = backend.constructed]_vars

\* a socket opens: the step runs onopen
Opens ==
    \/ backend.ws = <<CONNECTING>> /\ backend' = onopen(backend, TRUE)
    \/ backend.released[CONNECTING + 1] > 0 /\ backend' = onopen(backend, FALSE)

C30_AtMostTenAttempts ==
    /\ [](backend.reconnectAttempts <= maxReconnectAttempts)
    /\ [][Opens => backend'.reconnectAttempts = 0]_vars

\* C30: the client reconnects only after a loss it did not ask for: from an
\* explicit disconnect() until connect() or send() is called again no
\* reconnect attempt is scheduled and no new connection is opened; the count
\* of attempts never passes 10 and a successful open resets it to 0.
C30_ReconnectOnlyAfterLoss == C30_NothingAfterDisconnect /\ C30_AtMostTenAttempts

====
